---- MODULE Spec2Model ----
(***************************************************************************)
(* Model of the definition-log tools of the repository:                    *)
(*   munch_data_types.py                compiles data_type logs to tables   *)
(*   sort-log.py                        sorts the blocks of a log           *)
(*   parse_imperator_datatype_logs.py   formats an Imperator type dump      *)
(* Python strings are TLA+ strings; the string methods the scripts use are  *)
(* defined below on characters, as Python defines them.  The logs are       *)
(* ASCII text with \n line ends.  Of sort-log.py the branches for           *)
(* event_targets.log and triggers.log are modelled, the one for             *)
(* modifiers.log is not.                                                    *)
(***************************************************************************)
EXTENDS Integers, Sequences, FiniteSets, TLC

\* ------------------------------------------------------------------------
\* Bounds of the model
\* ------------------------------------------------------------------------
MaxFiles == 2
MaxBlocks == 2
MaxSortItems == 4
MaxImperatorLines == 3

\* ------------------------------------------------------------------------
\* Python string primitives
\* ------------------------------------------------------------------------
\* the characters the logs use, in code point order
CodePoints ==
    "\n !\"#$%&'()*+,-./0123456789:;<=>?@ABCDEFGHIJKLMNOPQRSTUVWXYZ[]^_abcdefghijklmnopqrstuvwxyz{|}~"

Ord(c) == CHOOSE i \in 1..Len(CodePoints) : SubSeq(CodePoints, i, i) = c

\* a < b on str, given that a and b agree before position i
RECURSIVE LessFrom(_, _, _)
LessFrom(a, b, i) ==
    IF i > Len(a) THEN i <= Len(b)
    ELSE IF i > Len(b) THEN FALSE
    ELSE IF SubSeq(a, i, i) = SubSeq(b, i, i) THEN LessFrom(a, b, i + 1)
    ELSE Ord(SubSeq(a, i, i)) < Ord(SubSeq(b, i, i))

\* a < b on str
StrLess(a, b) == LessFrom(a, b, 1)

\* sub in s
Contains(s, sub) ==
    \E i \in 1..(Len(s) - Len(sub) + 1) : SubSeq(s, i, i + Len(sub) - 1) = sub

\* s.startswith(p)
StartsWith(s, p) == Len(s) >= Len(p) /\ SubSeq(s, 1, Len(p)) = p

\* s.endswith(p)
EndsWith(s, p) == Len(s) >= Len(p) /\ SubSeq(s, Len(s) - Len(p) + 1, Len(s)) = p

\* s.find(sub, i - 1) + 1 (0 when absent)
RECURSIVE FindFrom(_, _, _)
FindFrom(s, sub, i) ==
    IF i + Len(sub) - 1 > Len(s) THEN 0
    ELSE IF SubSeq(s, i, i + Len(sub) - 1) = sub THEN i
    ELSE FindFrom(s, sub, i + 1)

\* s.find(sub) + 1 (0 when absent)
Find(s, sub) == FindFrom(s, sub, 1)

\* s.split(sep)
RECURSIVE Split(_, _)
Split(s, sep) ==
    LET i == Find(s, sep)
    IN  IF i = 0 THEN <<s>>
        ELSE <<SubSeq(s, 1, i - 1)>> \o Split(SubSeq(s, i + Len(sep), Len(s)), sep)

\* s.splitlines()
SplitLines(s) ==
    LET parts == Split(s, "\n")
    IN  IF parts[Len(parts)] = "" THEN SubSeq(parts, 1, Len(parts) - 1) ELSE parts

\* sep.join(seq)
RECURSIVE Join(_, _)
Join(seq, sep) ==
    IF Len(seq) = 0 THEN ""
    ELSE IF Len(seq) = 1 THEN seq[1]
    ELSE seq[1] \o sep \o Join(Tail(seq), sep)

IsSpace(c) == c \in {" ", "\n", "\t", "\r"}

\* s.strip()
RECURSIVE Strip(_)
Strip(s) ==
    IF Len(s) = 0 THEN s
    ELSE IF IsSpace(SubSeq(s, 1, 1)) THEN Strip(SubSeq(s, 2, Len(s)))
    ELSE IF IsSpace(SubSeq(s, Len(s), Len(s))) THEN Strip(SubSeq(s, 1, Len(s) - 1))
    ELSE s

\* s.replace(old, new)
Replace(s, old, new) == Join(Split(s, old), new)

\* "{}".format(n) for n >= 0
RECURSIVE Decimal(_)
Decimal(n) ==
    IF n < 10 THEN SubSeq("0123456789", n + 1, n + 1)
    ELSE Decimal(n \div 10) \o SubSeq("0123456789", (n % 10) + 1, (n % 10) + 1)

\* list.sort() on a list of str
Sorted(seq) == SortSeq(seq, StrLess)

\* x in list
InList(x, seq) == \E i \in 1..Len(seq) : seq[i] = x

\* an unbound Python name, and a name bound to v
Unbound == <<>>
Bound(v) == <<v>>

\* ------------------------------------------------------------------------
\* munch_data_types.py: tables
\* ------------------------------------------------------------------------
SEPARATOR == "\n-----------------------\n\n"

ARGS_OVERRIDE ==
    <<"Artifact.GetFeatureText", 1>> :> <<"IType(Item::ArtifactFeatureGroup)">>
    @@ <<"Character.Custom2", 2>> :> <<"DType(CString)", "DType(AnyScope)">>
    @@ <<"EqualTo_string", 2>> :> <<"DType(CString)", "DType(CString)">>
    @@ <<"FaithDoctrine.GetName", 1>> :> <<"DType(Faith)">>
    @@ <<"FaithDoctrineGroup.GetName", 1>> :> <<"DType(Faith)">>
    @@ <<"GetAccoladeType", 1>> :> <<"IType(Item::AccoladeType)">>
    @@ <<"GetActivityGuestInviteRule", 1>> :> <<"IType(Item::GuestInviteRule)">>
    @@ <<"GetActivityIntent", 1>> :> <<"IType(Item::ActivityIntent)">>
    @@ <<"GetActivityLocale", 1>> :> <<"IType(Item::ActivityLocale)">>
    @@ <<"GetActivityPulseAction", 1>> :> <<"IType(Item::PulseAction)">>
    @@ <<"GetActivityType", 1>> :> <<"IType(Item::ActivityType)">>
    @@ <<"GetArtifactType", 1>> :> <<"IType(Item::ArtifactType)">>
    @@ <<"GetArtifactVisualType", 1>> :> <<"IType(Item::ArtifactVisual)">>
    @@ <<"GetBookmark", 1>> :> <<"IType(Item::Bookmark)">>
    @@ <<"GetBookmarkGroup", 1>> :> <<"IType(Item::BookmarkGroup)">>
    @@ <<"GetBuilding", 1>> :> <<"IType(Item::Building)">>
    @@ <<"GetCasusBelliType", 1>> :> <<"IType(Item::CasusBelli)">>
    @@ <<"GetCatalystType", 1>> :> <<"IType(Item::Catalyst)">>
    @@ <<"GetCharacterInteraction", 1>> :> <<"IType(Item::Interaction)">>
    @@ <<"GetCharacterInteractionCategory", 1>> :> <<"IType(Item::InteractionCategory)">>
    @@ <<"GetDecisionWithKey", 1>> :> <<"IType(Item::Decision)">>
    @@ <<"GetDoctrine", 1>> :> <<"IType(Item::Doctrine)">>
    @@ <<"GetFaithByKey", 1>> :> <<"IType(Item::Faith)">>
    @@ <<"GetFaithDoctrine", 1>> :> <<"IType(Item::Doctrine)">>
    @@ <<"GetFocus", 1>> :> <<"IType(Item::Focus)">>
    @@ <<"GetGeographicalRegion", 1>> :> <<"IType(Item::Region)">>
    @@ <<"GetHolySite", 1>> :> <<"IType(Item::HolySite)">>
    @@ <<"GetIllustration", 1>> :> <<"IType(Item::ScriptedIllustration)">>
    @@ <<"GetLifestyle", 1>> :> <<"IType(Item::Lifestyle)">>
    @@ <<"GetMaA", 1>> :> <<"IType(Item::MenAtArms)">>
    @@ <<"GetModifier", 1>> :> <<"IType(Item::Modifier)">>
    @@ <<"GetNickname", 1>> :> <<"IType(Item::Nickname)">>
    @@ <<"GetPerk", 1>> :> <<"IType(Item::Perk)">>
    @@ <<"GetRelation", 1>> :> <<"IType(Item::Relation)">>
    @@ <<"GetReligionByKey", 1>> :> <<"IType(Item::Religion)">>
    @@ <<"GetScheme", 1>> :> <<"IType(Item::Scheme)">>
    @@ <<"GetSchemeType", 1>> :> <<"IType(Item::Scheme)">>
    @@ <<"GetScriptedGui", 1>> :> <<"IType(Item::ScriptedGui)">>
    @@ <<"GetScriptedRelation", 1>> :> <<"IType(Item::Relation)">>
    @@ <<"GetSecretType", 1>> :> <<"IType(Item::Secret)">>
    @@ <<"GetStaticModifier", 1>> :> <<"IType(Item::Modifier)">>
    @@ <<"GetTerrain", 1>> :> <<"IType(Item::Terrain)">>
    @@ <<"GetTitleByKey", 1>> :> <<"IType(Item::Title)">>
    @@ <<"GetTrait", 1>> :> <<"IType(Item::Trait)">>
    @@ <<"GetVassalStance", 1>> :> <<"IType(Item::VassalStance)">>
    @@ <<"Scope.Var", 1>> :> <<"DType(CString)">>
    @@ <<"TopScope.sC", 1>> :> <<"DType(CString)">>
    @@ <<"VariableSystem.Set", 1>> :> <<"DType(CString)", "DType(Unknown)">>

ARGS_OVERRIDE_ANY ==
    <<"Custom", 1>> :> <<"DType(CString)">>
    @@ <<"GetName", 1>> :> <<"DType(Character)">>

RTYPE_OVERRIDE ==
    "GetNullCharacter" :> "Character"
    @@ "Scope.Accolade" :> "Accolade"
    @@ "Scope.Activity" :> "Activity"
    @@ "Scope.ActivityType" :> "ActivityType"
    @@ "Scope.Army" :> "Army"
    @@ "Scope.Artifact" :> "Artifact"
    @@ "Scope.CasusBelli" :> "ActiveCasusBelli"
    @@ "Scope.Char" :> "Character"
    @@ "Scope.CharacterMemory" :> "CharacterMemory"
    @@ "Scope.Combat" :> "Combat"
    @@ "Scope.CombatSide" :> "CombatSide"
    @@ "Scope.CouncilTask" :> "ActiveCouncilTask"
    @@ "Scope.Culture" :> "Culture"
    @@ "Scope.CulturePillar" :> "CulturePillar"
    @@ "Scope.CultureTradition" :> "CultureTradition"
    @@ "Scope.DecisionType" :> "Decision"
    @@ "Scope.Faction" :> "Faction"
    @@ "Scope.Faith" :> "Faith"
    @@ "Scope.FaithDoctrine" :> "FaithDoctrine"
    @@ "Scope.GetCharacter" :> "Character"
    @@ "Scope.GetLandedTitle" :> "Title"
    @@ "Scope.GetProvince" :> "Province"
    @@ "Scope.GetScheme" :> "Scheme"
    @@ "Scope.GovernmentType" :> "GovernmentType"
    @@ "Scope.GreatHolyWar" :> "GreatHolyWar"
    @@ "Scope.HolyOrder" :> "HolyOrder"
    @@ "Scope.House" :> "DynastyHouse"
    @@ "Scope.Inspiration" :> "Inspiration"
    @@ "Scope.MercenaryCompany" :> "MercenaryCompany"
    @@ "Scope.Province" :> "Province"
    @@ "Scope.Religion" :> "Religion"
    @@ "Scope.Scheme" :> "Scheme"
    @@ "Scope.ScriptValue" :> "CFixedPoint"
    @@ "Scope.Secret" :> "Secret"
    @@ "Scope.Story" :> "Story"
    @@ "Scope.Struggle" :> "Struggle"
    @@ "Scope.Title" :> "Title"
    @@ "Scope.Trait" :> "Trait"
    @@ "Scope.TravelPlan" :> "TravelPlan"
    @@ "Scope.VassalContractType" :> "VassalContractType"
    @@ "Scope.War" :> "War"
    @@ "TopScope.sC" :> "Character"


UNARY_ARGS == <<"Abs_", "GetString_", "Negate_">>

BINARY_ARGS ==
    << "Add_", "EqualTo_", "Divide_", "GetNumberAbove_", "GreaterThanOrEqualTo_",
       "GreaterThan_", "LessThanOrEqualTo_", "LessThan_", "Max_", "Multiply_",
       "NotEqualTo_", "Subtract_" >>

\* ------------------------------------------------------------------------
\* munch_data_types.py: one item
\* ------------------------------------------------------------------------

\* the while loop counting Arg0, Arg1, ... in the header, started at n
RECURSIVE CountArgs(_, _)
CountArgs(header, n) ==
    IF Contains(header, "Arg" \o Decimal(n)) THEN CountArgs(header, n + 1) ELSE n

\* args after the while loop: nargs times DType(Unknown)
DefaultArgs(nargs) == [i \in 1..nargs |-> "DType(Unknown)"]

MatchesAny(name, prefixes) == \E i \in 1..Len(prefixes) : StartsWith(name, prefixes[i])

\* the three prefix rules, in source order, each overwriting type and args;
\* type0 is the value of the variable type before the rules
PrefixRules(name, nargs, type0) ==
    LET t == Split(name, "_")[2]
        d == "DType(" \o t \o ")"
        unary == MatchesAny(name, UNARY_ARGS)
        binary == MatchesAny(name, BINARY_ARGS)
        select == StartsWith(name, "Select_")
    IN  [ type |-> IF unary \/ binary \/ select THEN Bound(t) ELSE type0,
          args |-> IF select THEN <<"DType(bool)", d, d>>
                   ELSE IF binary THEN <<d, d>>
                   ELSE IF unary THEN <<d>>
                   ELSE DefaultArgs(nargs) ]

\* ResolveArgs with the owner-agnostic table consulted last
ResolveArgs_AnyLast(name, nargs) ==
    LET a1 == PrefixRules(name, nargs, Unbound).args
        a2 == IF <<name, nargs>> \in DOMAIN ARGS_OVERRIDE
              THEN ARGS_OVERRIDE[<<name, nargs>>] ELSE a1
        a3 == IF <<name, nargs>> \in DOMAIN ARGS_OVERRIDE_ANY
              THEN ARGS_OVERRIDE_ANY[<<name, nargs>>] ELSE a2
    IN  IF Contains(name, ".")
           /\ <<Split(name, ".")[2], nargs>> \in DOMAIN ARGS_OVERRIDE_ANY
        THEN ARGS_OVERRIDE_ANY[<<Split(name, ".")[2], nargs>>] ELSE a3

\* the list args when the rendering into Args(&[...]) is reached
ResolveArgs(name, nargs) ==
    LET a1 == PrefixRules(name, nargs, Unbound).args
        a2 == IF <<name, nargs>> \in DOMAIN ARGS_OVERRIDE_ANY
              THEN ARGS_OVERRIDE_ANY[<<name, nargs>>] ELSE a1
        a3 == IF Contains(name, ".")
                 /\ <<Split(name, ".")[2], nargs>> \in DOMAIN ARGS_OVERRIDE_ANY
              THEN ARGS_OVERRIDE_ANY[<<Split(name, ".")[2], nargs>>] ELSE a2
    IN  IF <<name, nargs>> \in DOMAIN ARGS_OVERRIDE
        THEN ARGS_OVERRIDE[<<name, nargs>>] ELSE a3

RenderArgs(args) == "Args(&[" \o Join(args, ", ") \o "])"

\* IsMacro with the test for the macro tag left out
IsMacro_Never(item) == FALSE

IsMacro(item) == Contains(item, "Definition type: Global macro")

IsType(item) == Contains(item, "Definition type: Type")

\* ParseRtype falling back to Unknown when the last line has no return type
ParseRtype_Default(lines) ==
    LET parts == Split(lines[Len(lines)], "Return type: ")
    IN  IF Len(parts) < 2 THEN Bound("Unknown") ELSE Bound(Strip(parts[2]))

\* lines[-1].split("Return type: ")[1].strip(), Unbound on IndexError
ParseRtype(lines) ==
    LET parts == Split(lines[Len(lines)], "Return type: ")
    IN  IF Len(parts) < 2 THEN Unbound ELSE Bound(Strip(parts[2]))

\* ResolveRtype with the override applied whatever the log reports
ResolveRtype_Always(name, raw) ==
    LET r1 == IF raw = "[unregistered]" THEN "Unknown" ELSE raw
        r2 == IF r1 = "_null_type_" THEN "void" ELSE r1
    IN  IF name \in DOMAIN RTYPE_OVERRIDE THEN RTYPE_OVERRIDE[name] ELSE r2

\* rtype after the sentinel rules and RTYPE_OVERRIDE
ResolveRtype(name, raw) ==
    LET r1 == IF raw = "[unregistered]" THEN "Unknown" ELSE raw
        r2 == IF r1 = "_null_type_" THEN "void" ELSE r1
    IN  IF r2 = "Unknown" /\ name \in DOMAIN RTYPE_OVERRIDE
        THEN RTYPE_OVERRIDE[name] ELSE r2

GlobalLine(name, args, rtype) ==
    "    (\"" \o name \o "\", " \o args \o ", " \o rtype \o "),\n"

OwnedLine(bare, owner, args, rtype) ==
    "    (\"" \o bare \o "\", " \o owner \o ", " \o args \o ", " \o rtype \o "),\n"

TypeLine(name) == "    " \o name \o ",\n"

Raise(s, e) == [s EXCEPT !.exc = e]

\* the if/elif chain that files the record of one item
Dispatch(item, name, args, rtype, s) ==
    IF Contains(item, "\nDefinition type: Global promote\n")
    THEN [s EXCEPT !.GLOBAL_PROMOTES = Append(@, GlobalLine(name, args, rtype))]
    ELSE IF Contains(item, "\nDefinition type: Global function\n")
    THEN [s EXCEPT !.GLOBAL_FUNCTIONS = Append(@, GlobalLine(name, args, rtype))]
    ELSE IF Contains(item, "\nDefinition type: Function\n")
    THEN IF s.barename = Unbound \/ s.type = Unbound
         THEN Raise(s, "NameError")
         ELSE LET b == s.barename[1]
                  r == IF b = "AccessSelf" \/ b = "Self" THEN s.type[1] ELSE rtype
              IN  [s EXCEPT !.FUNCTIONS = Append(@, OwnedLine(b, s.type[1], args, r))]
    ELSE IF Contains(item, "\nDefinition type: Promote\n")
    THEN IF s.barename = Unbound \/ s.type = Unbound
         THEN Raise(s, "NameError")
         ELSE [s EXCEPT !.PROMOTES =
                   Append(@, OwnedLine(s.barename[1], s.type[1], args, rtype))]
    ELSE Raise([s EXCEPT !.stdout = Append(@, item)], "TypeError")

\* the body of the loop over items, on the program variables in record s
Body(item, s) ==
    IF item = "" THEN s
    ELSE
    LET lines == SplitLines(item)
        name == Split(lines[1], "(")[1]
        nargs == CountArgs(lines[1], 0)
        pre == PrefixRules(name, nargs, s.type)
        dotted == Contains(name, ".")
        parts == Split(name, ".")
        s0 == [s EXCEPT !.type = pre.type]
        s1 == IF dotted
              THEN [s EXCEPT !.type = Bound(parts[1]), !.barename = Bound(parts[2])]
              ELSE s0
        args == RenderArgs(ResolveArgs(name, nargs))
        raw == ParseRtype(lines)
    IN  IF dotted /\ Len(parts) # 2 THEN Raise(s0, "ValueError")
        ELSE IF IsMacro(item) THEN s1
        ELSE IF IsType(item)
        THEN IF InList(TypeLine(name), s1.TYPES) THEN s1
             ELSE [s1 EXCEPT !.TYPES = Append(@, TypeLine(name))]
        ELSE IF raw = Unbound THEN Raise(s1, "IndexError")
        ELSE Dispatch(item, name, args, ResolveRtype(name, raw[1]), s1)

\* ------------------------------------------------------------------------
\* munch_data_types.py: the run
\* ------------------------------------------------------------------------
VARIABLES
    game,               \* sys.argv[1]
    OUTDIR,             \* Unbound when game is neither ck3 nor vic3
    fnames,             \* the contents of the files named by sys.argv[2:]
    fidx,               \* position of the loop over fnames
    items,              \* text.split(SEPARATOR) of the current file
    iidx,               \* position of the loop over items
    TYPES, GLOBAL_PROMOTES, GLOBAL_FUNCTIONS, FUNCTIONS, PROMOTES,
    type, barename,     \* loop variables, Unbound until first assigned
    stdout,             \* what print() has written
    fs,                 \* the output files written, path |-> content
    exc,                \* the uncaught exception that ended the run, or ""
    pc

munchVars ==
    << game, OUTDIR, fnames, fidx, items, iidx, TYPES, GLOBAL_PROMOTES,
       GLOBAL_FUNCTIONS, FUNCTIONS, PROMOTES, type, barename, stdout, fs, exc, pc >>

\* sort-log.py
VARIABLES
    fname,              \* sys.argv[1]
    text,               \* the content of that file
    printed,            \* what print() has written, Unbound before it
    sortexc,            \* the uncaught exception that ended the run, or ""
    sortpc

sortVars == << fname, text, printed, sortexc, sortpc >>

\* parse_imperator_datatype_logs.py
VARIABLES
    input_string,       \* the argument of parse_and_format_input
    lidx,               \* position of the loop over lines
    current_class,
    output_list,
    returned,           \* the value returned, Unbound before the return
    impexc,             \* the uncaught exception that ended the call, or ""
    imppc

impVars == << input_string, lidx, current_class, output_list, returned, impexc, imppc >>

vars == << munchVars, sortVars, impVars >>

\* item blocks the logs are made of, grouped by the part of the compiler they
\* exercise
PatternBlocks ==
    << "Foo(Arg0)\nDefinition type: Global function\nReturn type: [unregistered]",
       "EqualTo_string(Arg0,Arg1)\nDefinition type: Global function\nReturn type: bool",
       "FaithDoctrine.GetName(Arg0)\nDefinition type: Function\nReturn type: CString",
       "Select_float(Arg0,Arg1,Arg2)\nDefinition type: Global function\nReturn type: float" >>

OverrideBlocks ==
    << "Custom(Arg0)\nDefinition type: Global promote\nReturn type: CString",
       "Title.Custom(Arg0)\nDefinition type: Promote\nReturn type: CString",
       "VariableSystem.Set(Arg0)\nDefinition type: Function\nReturn type: _null_type_",
       "TopScope.sC(Arg0)\nDefinition type: Promote\nReturn type: [unregistered] ",
       "Scope.Title\nDefinition type: Promote\nReturn type: _null_type_" >>

TypeBlocks ==
    << "Army\nDefinition type: Type",
       "Unknown\nDefinition type: Type",
       "Vec4f\nDefinition type: Type",
       "GetPlayer\nDefinition type: Global macro\nReturn type: Character",
       "GetNullCharacter\nDefinition type: Global promote\nReturn type: Unknown" >>

OwnerBlocks ==
    << "Army.Self\nDefinition type: Function\nReturn type: Unknown",
       "GetOwner\nDefinition type: Function\nReturn type: Character",
       "Junk(Arg0)\nDescription: no tag\nReturn type: bool",
       "GetScheme(Arg0)\nDefinition type: Global promote\nDescription: no return" >>

BlockGroups == {PatternBlocks, OverrideBlocks, TypeBlocks, OwnerBlocks}

\* the sequences of at most MaxBlocks blocks of one group
BlockSeqs ==
    UNION { UNION { [1..k -> {g[i] : i \in DOMAIN g}] : k \in 0..MaxBlocks } : g \in BlockGroups }

\* the text of a log file holding the given blocks, each followed by the separator
RECURSIVE FileText(_)
FileText(blocks) ==
    IF Len(blocks) = 0 THEN ""
    ELSE blocks[1] \o SEPARATOR \o FileText(Tail(blocks))

\* blocks[i] for the i with where[i] = f, in order
RECURSIVE BlocksOf(_, _, _)
BlocksOf(blocks, where, f) ==
    IF Len(blocks) = 0 THEN <<>>
    ELSE (IF where[1] = f THEN <<blocks[1]>> ELSE <<>>)
         \o BlocksOf(Tail(blocks), Tail(where), f)

\* the ways of laying a sequence of blocks out over n files, in order, no
\* file left empty
Layouts(blocks, n) ==
    { [f \in 1..n |-> FileText(BlocksOf(blocks, where, f))] :
        where \in { w \in [1..Len(blocks) -> 1..n] :
                      /\ \A i \in 1..(Len(blocks) - 1) : w[i] <= w[i + 1]
                      /\ \A f \in 1..n : \E i \in 1..Len(blocks) : w[i] = f } }

Inputs == UNION { UNION { Layouts(b, n) : n \in 0..MaxFiles } : b \in BlockSeqs }

Games == {"ck3", "vic3", "imperator"}

NoFiles == [p \in {} |-> ""]

MunchInit ==
    /\ game \in Games
    /\ OUTDIR = IF game = "ck3" THEN Bound("src/ck3/tables/include")
                ELSE IF game = "vic3" THEN Bound("src/vic3/tables/include")
                ELSE Unbound
    /\ fnames \in Inputs
    /\ fidx = 1
    /\ items = <<>>
    /\ iidx = 1
    /\ TYPES = <<"    Vec4f,\n">>
    /\ GLOBAL_PROMOTES = <<"    (\"Root\", Args(&[]), Scope),\n">>
    /\ GLOBAL_FUNCTIONS = <<>>
    /\ FUNCTIONS = <<>>
    /\ PROMOTES = <<>>
    /\ type = Unbound
    /\ barename = Unbound
    /\ stdout = IF game \in {"ck3", "vic3"} THEN <<>> ELSE <<"unknown game {} " \o game>>
    /\ fs = NoFiles
    /\ exc = ""
    /\ pc = "files"

\* for fname in fnames: read the file and split it
OpenFile ==
    /\ pc = "files"
    /\ fidx <= Len(fnames)
    /\ items' = Split(fnames[fidx], SEPARATOR)
    /\ iidx' = 1
    /\ pc' = "items"
    /\ UNCHANGED << sortVars, impVars >>
    /\ UNCHANGED << game, OUTDIR, fnames, fidx, TYPES, GLOBAL_PROMOTES, GLOBAL_FUNCTIONS,
                    FUNCTIONS, PROMOTES, type, barename, stdout, fs, exc >>

\* the program variables the loop body reads and writes
LoopState ==
    [ TYPES |-> TYPES, GLOBAL_PROMOTES |-> GLOBAL_PROMOTES,
      GLOBAL_FUNCTIONS |-> GLOBAL_FUNCTIONS, FUNCTIONS |-> FUNCTIONS,
      PROMOTES |-> PROMOTES, type |-> type, barename |-> barename,
      stdout |-> stdout, exc |-> "" ]

\* one iteration of the loop over items
ProcessItem ==
    /\ pc = "items"
    /\ iidx <= Len(items)
    /\ LET s == Body(items[iidx], LoopState)
       IN  /\ TYPES' = s.TYPES
           /\ GLOBAL_PROMOTES' = s.GLOBAL_PROMOTES
           /\ GLOBAL_FUNCTIONS' = s.GLOBAL_FUNCTIONS
           /\ FUNCTIONS' = s.FUNCTIONS
           /\ PROMOTES' = s.PROMOTES
           /\ type' = s.type
           /\ barename' = s.barename
           /\ stdout' = s.stdout
           /\ exc' = s.exc
           /\ pc' = IF s.exc = "" THEN "items" ELSE "aborted"
           /\ iidx' = IF s.exc = "" THEN iidx + 1 ELSE iidx
    /\ UNCHANGED << sortVars, impVars >>
    /\ UNCHANGED << game, OUTDIR, fnames, fidx, items, fs >>

\* the loop over items is exhausted: on to the next file
EndOfFile ==
    /\ pc = "items"
    /\ iidx > Len(items)
    /\ fidx' = fidx + 1
    /\ pc' = "files"
    /\ UNCHANGED << sortVars, impVars >>
    /\ UNCHANGED << game, OUTDIR, fnames, items, iidx, TYPES, GLOBAL_PROMOTES,
                    GLOBAL_FUNCTIONS, FUNCTIONS, PROMOTES, type, barename, stdout, fs, exc >>

\* the loop over fnames is exhausted: on to the writers
EndOfFiles ==
    /\ pc = "files"
    /\ fidx > Len(fnames)
    /\ pc' = "datatypes.rs"
    /\ UNCHANGED << sortVars, impVars >>
    /\ UNCHANGED << game, OUTDIR, fnames, fidx, items, iidx, TYPES, GLOBAL_PROMOTES,
                    GLOBAL_FUNCTIONS, FUNCTIONS, PROMOTES, type, barename, stdout, fs, exc >>

\* open(path, "w") and the writes up to the end of the with block
WriteFile(path, content) ==
    fs' = [p \in DOMAIN fs \cup {path} |-> IF p = path THEN content ELSE fs[p]]

\* evaluating OUTDIR + "/..." while OUTDIR is unbound
OutdirUnbound ==
    /\ pc \in {"datatypes.rs", "data_global_promotes.rs", "data_global_functions.rs",
               "data_promotes.rs", "data_functions.rs"}
    /\ OUTDIR = Unbound
    /\ exc' = "NameError"
    /\ pc' = "aborted"
    /\ UNCHANGED << sortVars, impVars >>
    /\ UNCHANGED << game, OUTDIR, fnames, fidx, items, iidx, TYPES, GLOBAL_PROMOTES,
                    GLOBAL_FUNCTIONS, FUNCTIONS, PROMOTES, type, barename, stdout, fs >>

DatatypesText(types) ==
    "#[derive(Copy, Clone, Debug, Eq, PartialEq, Display, EnumString)]\n"
    \o "pub enum Datatype {\n"
    \o "    Unknown,\n"
    \o "    AnyScope,\n"
    \o Join(types, "")
    \o "}\n"

TableText(table) == "&[\n" \o Join(table, "") \o "]\n"

WriteDatatypes ==
    /\ pc = "datatypes.rs"
    /\ OUTDIR # Unbound
    /\ TYPES' = Sorted(TYPES)
    /\ WriteFile(OUTDIR[1] \o "/datatypes.rs", DatatypesText(TYPES'))
    /\ pc' = "data_global_promotes.rs"
    /\ UNCHANGED << sortVars, impVars >>
    /\ UNCHANGED << game, OUTDIR, fnames, fidx, items, iidx, GLOBAL_PROMOTES,
                    GLOBAL_FUNCTIONS, FUNCTIONS, PROMOTES, type, barename, stdout, exc >>

WriteGlobalPromotes ==
    /\ pc = "data_global_promotes.rs"
    /\ OUTDIR # Unbound
    /\ GLOBAL_PROMOTES' = Sorted(GLOBAL_PROMOTES)
    /\ WriteFile(OUTDIR[1] \o "/data_global_promotes.rs", TableText(GLOBAL_PROMOTES'))
    /\ pc' = "data_global_functions.rs"
    /\ UNCHANGED << sortVars, impVars >>
    /\ UNCHANGED << game, OUTDIR, fnames, fidx, items, iidx, TYPES,
                    GLOBAL_FUNCTIONS, FUNCTIONS, PROMOTES, type, barename, stdout, exc >>

WriteGlobalFunctions ==
    /\ pc = "data_global_functions.rs"
    /\ OUTDIR # Unbound
    /\ GLOBAL_FUNCTIONS' = Sorted(GLOBAL_FUNCTIONS)
    /\ WriteFile(OUTDIR[1] \o "/data_global_functions.rs", TableText(GLOBAL_FUNCTIONS'))
    /\ pc' = "data_promotes.rs"
    /\ UNCHANGED << sortVars, impVars >>
    /\ UNCHANGED << game, OUTDIR, fnames, fidx, items, iidx, TYPES,
                    GLOBAL_PROMOTES, FUNCTIONS, PROMOTES, type, barename, stdout, exc >>

WritePromotes ==
    /\ pc = "data_promotes.rs"
    /\ OUTDIR # Unbound
    /\ PROMOTES' = Sorted(PROMOTES)
    /\ WriteFile(OUTDIR[1] \o "/data_promotes.rs", TableText(PROMOTES'))
    /\ pc' = "data_functions.rs"
    /\ UNCHANGED << sortVars, impVars >>
    /\ UNCHANGED << game, OUTDIR, fnames, fidx, items, iidx, TYPES,
                    GLOBAL_PROMOTES, GLOBAL_FUNCTIONS, FUNCTIONS, type, barename, stdout, exc >>

WriteFunctions ==
    /\ pc = "data_functions.rs"
    /\ OUTDIR # Unbound
    /\ FUNCTIONS' = Sorted(FUNCTIONS)
    /\ WriteFile(OUTDIR[1] \o "/data_functions.rs", TableText(FUNCTIONS'))
    /\ pc' = "done"
    /\ UNCHANGED << sortVars, impVars >>
    /\ UNCHANGED << game, OUTDIR, fnames, fidx, items, iidx, TYPES,
                    GLOBAL_PROMOTES, GLOBAL_FUNCTIONS, PROMOTES, type, barename, stdout, exc >>

\* ------------------------------------------------------------------------
\* sort-log.py
\* ------------------------------------------------------------------------
SEPARATOR_SORT == "\n--------------------\n\n"

SortBlocks == {"any_army", "every_army", "random_army"}

SortTexts ==
    { Join(b, SEPARATOR_SORT) :
        b \in UNION { [1..k -> SortBlocks] : k \in 1..MaxSortItems } }

SortInit ==
    /\ fname \in {"logs/event_targets.log", "logs/triggers.log", "logs/effects.log"}
    /\ text \in SortTexts
    /\ printed = Unbound
    /\ sortexc = ""
    /\ sortpc = "start"

\* the branch for event_targets.log applied to items = text.split(SEPARATOR):
\* Unbound when del items[-1] finds the list empty
EventTargetsOrder(its) ==
    IF Len(its) < 2 THEN Unbound
    ELSE Bound(<<its[1]>> \o Sorted(SubSeq(its, 2, Len(its) - 1)) \o <<its[Len(its)]>>)

\* the branch for triggers.log: header = items[0:2], del items[0:1], sort,
\* then header[1] and header[0] inserted in front; Unbound when header[1]
\* does not exist
TriggersOrder(its) ==
    IF Len(its) < 2 THEN Unbound
    ELSE Bound(<<its[1], its[2]>> \o Sorted(Tail(its)))

SortEventTargets ==
    /\ sortpc = "start"
    /\ EndsWith(fname, "event_targets.log")
    /\ LET out == EventTargetsOrder(Split(text, SEPARATOR_SORT))
       IN  IF out = Unbound
           THEN sortexc' = "IndexError" /\ sortpc' = "aborted" /\ printed' = printed
           ELSE /\ printed' = Bound(Join(out[1], SEPARATOR_SORT) \o "\n")
                /\ sortpc' = "done"
                /\ sortexc' = sortexc
    /\ UNCHANGED << fname, text >>
    /\ UNCHANGED << munchVars, impVars >>

SortTriggers ==
    /\ sortpc = "start"
    /\ ~EndsWith(fname, "event_targets.log")
    /\ EndsWith(fname, "triggers.log")
    /\ LET out == TriggersOrder(Split(text, SEPARATOR_SORT))
       IN  IF out = Unbound
           THEN sortexc' = "IndexError" /\ sortpc' = "aborted" /\ printed' = printed
           ELSE /\ printed' = Bound(Join(out[1], SEPARATOR_SORT) \o "\n")
                /\ sortpc' = "done"
                /\ sortexc' = sortexc
    /\ UNCHANGED << fname, text >>
    /\ UNCHANGED << munchVars, impVars >>

\* a file name none of the branches matches: nothing is printed
SortNothing ==
    /\ sortpc = "start"
    /\ ~EndsWith(fname, "event_targets.log")
    /\ ~EndsWith(fname, "triggers.log")
    /\ ~EndsWith(fname, "modifiers.log")
    /\ sortpc' = "done"
    /\ UNCHANGED << fname, text, printed, sortexc >>
    /\ UNCHANGED << munchVars, impVars >>

SortNext == SortEventTargets \/ SortTriggers \/ SortNothing

\* ------------------------------------------------------------------------
\* parse_imperator_datatype_logs.py
\* ------------------------------------------------------------------------
ImperatorLines ==
    { "    Self -> Unknown", "    GetText -> CString", "    Close -> void",
      "AISettingsMenuItem = {", "}" }

\* the input the script is run on
ImperatorLog ==
    "\nAISettingsMenu = {\n    AccessSelf -> Unknown\n    Close -> void\n"
    \o "    GetItems -> Unknown\n    Reset -> void\n    Save -> void\n"
    \o "    Self -> Unknown\n}\n\nAISettingsMenuItem = {\n"
    \o "    AccessSelf -> Unknown\n    GetText -> CString\n"
    \o "    GetTooltip -> CString\n    GetValue -> bool\n    Self -> Unknown\n"
    \o "    SetValue -> void\n}\n"

ImperatorInputs ==
    {ImperatorLog} \cup
    { Join(<<"AISettingsMenu = {">> \o l, "\n") :
        l \in UNION { [1..k -> ImperatorLines] : k \in 0..MaxImperatorLines } }

ImpInit ==
    /\ input_string \in ImperatorInputs
    /\ lidx = 1
    /\ current_class = ""
    /\ output_list = <<>>
    /\ returned = Unbound
    /\ impexc = ""
    /\ imppc = "lines"

\* the class name taken from a line ending in "= {"
ClassOf(line) == Strip(Replace(Replace(line, " =", ""), "{", ""))

\* line.replace("}", "").split(" -> ")
MethodAndType(line) == Split(Replace(line, "}", ""), " -> ")

FormatMethod(method, class, return_type) ==
    "(\"" \o method \o "\", " \o class \o ", Args(&[]), " \o return_type \o ")"

\* one iteration of the loop over lines
ImpLine ==
    /\ imppc = "lines"
    /\ lidx <= Len(Split(input_string, "\n"))
    /\ LET line == Strip(Split(input_string, "\n")[lidx])
       IN  IF EndsWith(line, "= {")
           THEN /\ current_class' = ClassOf(line)
                /\ lidx' = lidx + 1
                /\ UNCHANGED << output_list, impexc, imppc >>
           ELSE IF Contains(line, "->")
           THEN IF Len(MethodAndType(line)) # 2
                THEN /\ impexc' = "ValueError"
                     /\ imppc' = "aborted"
                     /\ UNCHANGED << current_class, output_list, lidx >>
                ELSE /\ output_list' = Append(output_list,
                            FormatMethod(MethodAndType(line)[1], current_class,
                                         MethodAndType(line)[2]))
                     /\ lidx' = lidx + 1
                     /\ UNCHANGED << current_class, impexc, imppc >>
           ELSE /\ lidx' = lidx + 1
                /\ UNCHANGED << current_class, output_list, impexc, imppc >>
    /\ UNCHANGED << input_string, returned >>
    /\ UNCHANGED << munchVars, sortVars >>

\* return "\n".join(output_list)
ImpReturn ==
    /\ imppc = "lines"
    /\ lidx > Len(Split(input_string, "\n"))
    /\ returned' = Bound(Join(output_list, "\n"))
    /\ imppc' = "done"
    /\ UNCHANGED << input_string, lidx, current_class, output_list, impexc >>
    /\ UNCHANGED << munchVars, sortVars >>

ImpNext == ImpLine \/ ImpReturn

\* ------------------------------------------------------------------------
\* Specifications: one program runs, the other two have not been started
\* ------------------------------------------------------------------------
MunchIdle ==
    /\ game = "ck3"
    /\ OUTDIR = Bound("src/ck3/tables/include")
    /\ fnames = <<>>
    /\ fidx = 1
    /\ items = <<>>
    /\ iidx = 1
    /\ TYPES = <<"    Vec4f,\n">>
    /\ GLOBAL_PROMOTES = <<"    (\"Root\", Args(&[]), Scope),\n">>
    /\ GLOBAL_FUNCTIONS = <<>>
    /\ FUNCTIONS = <<>>
    /\ PROMOTES = <<>>
    /\ type = Unbound
    /\ barename = Unbound
    /\ stdout = <<>>
    /\ fs = NoFiles
    /\ exc = ""
    /\ pc = "files"

SortIdle ==
    /\ fname = "logs/effects.log"
    /\ text = ""
    /\ printed = Unbound
    /\ sortexc = ""
    /\ sortpc = "start"

ImpIdle ==
    /\ input_string = ""
    /\ lidx = 1
    /\ current_class = ""
    /\ output_list = <<>>
    /\ returned = Unbound
    /\ impexc = ""
    /\ imppc = "lines"

Init == MunchInit /\ SortIdle /\ ImpIdle

Next ==
    \/ OpenFile
    \/ ProcessItem
    \/ EndOfFile
    \/ EndOfFiles
    \/ OutdirUnbound
    \/ WriteDatatypes
    \/ WriteGlobalPromotes
    \/ WriteGlobalFunctions
    \/ WritePromotes
    \/ WriteFunctions

Spec == Init /\ [][Next]_vars

SortLogInit == MunchIdle /\ SortInit /\ ImpIdle

SpecSortLog == SortLogInit /\ [][SortNext]_vars

ImperatorInit == MunchIdle /\ SortIdle /\ ImpInit

SpecImperator == ImperatorInit /\ [][ImpNext]_vars

\* ------------------------------------------------------------------------
\* Vocabulary of the properties
\* ------------------------------------------------------------------------

\* the loop over items is about to process a non-empty block
AtItem == pc = "items" /\ iidx <= Len(items) /\ items[iidx] # ""

CurItem == items[iidx]

HeaderOf(item) == SplitLines(item)[1]

NameOf(item) == Split(HeaderOf(item), "(")[1]

\* n with Arg0 .. Arg(n-1) in the header and Argn not
ArityOf(item) ==
    LET h == HeaderOf(item)
    IN  CHOOSE n \in 0..Len(h) :
            /\ \A i \in 0..(n - 1) : Contains(h, "Arg" \o Decimal(i))
            /\ ~Contains(h, "Arg" \o Decimal(n))

HasTagLine(item, kind) ==
    LET ls == SplitLines(item)
    IN  \E i \in 1..Len(ls) : ls[i] = "Definition type: " \o kind

\* the records a step appends to a table
NewLines(old, new) ==
    IF Len(new) = Len(old) + 1 /\ SubSeq(new, 1, Len(old)) = old
    THEN {new[Len(new)]} ELSE {}

NewOwnedLines == NewLines(FUNCTIONS, FUNCTIONS') \cup NewLines(PROMOTES, PROMOTES')

NewGlobalLines ==
    NewLines(GLOBAL_PROMOTES, GLOBAL_PROMOTES') \cup NewLines(GLOBAL_FUNCTIONS, GLOBAL_FUNCTIONS')

EmittedLines == NewOwnedLines \cup NewGlobalLines

TablesUnchanged ==
    UNCHANGED << TYPES, GLOBAL_PROMOTES, GLOBAL_FUNCTIONS, FUNCTIONS, PROMOTES >>

\* ------------------------------------------------------------------------
\* C1
\* ------------------------------------------------------------------------
BareNameOf(item) ==
    IF Contains(NameOf(item), ".") THEN Split(NameOf(item), ".")[2] ELSE NameOf(item)

NameType(item) == "DType(" \o Split(NameOf(item), "_")[2] \o ")"

\* the list of the highest-precedence rule that matches the item
ExpectedArgs(item) ==
    LET name == NameOf(item)
        n == ArityOf(item)
    IN  IF <<name, n>> \in DOMAIN ARGS_OVERRIDE THEN ARGS_OVERRIDE[<<name, n>>]
        ELSE IF <<BareNameOf(item), n>> \in DOMAIN ARGS_OVERRIDE_ANY
        THEN ARGS_OVERRIDE_ANY[<<BareNameOf(item), n>>]
        ELSE IF StartsWith(name, "Select_")
        THEN <<"DType(bool)", NameType(item), NameType(item)>>
        ELSE IF MatchesAny(name, BINARY_ARGS) THEN <<NameType(item), NameType(item)>>
        ELSE IF MatchesAny(name, UNARY_ARGS) THEN <<NameType(item)>>
        ELSE [i \in 1..n |-> "DType(Unknown)"]

\* C1: every record a block emits carries the argument list of the
\* highest-precedence rule that matches the block: owner-qualified override,
\* else owner-agnostic override (on the bare name, global or owned), else
\* prefix pattern, else arity many Unknown.
C1_ArgPrecedence ==
    [][AtItem =>
         \A L \in EmittedLines :
             Contains(L, ", Args(&[" \o Join(ExpectedArgs(CurItem), ", ") \o "]), ")]_vars

\* both overrides match FaithDoctrine.GetName/1, a prefix and an override
\* match EqualTo_string/2, and both records have been written
C1_Witness ==
    /\ pc = "done"
    /\ InList("    (\"GetName\", FaithDoctrine, Args(&[DType(Faith)]), CString),\n", FUNCTIONS)
    /\ InList("    (\"EqualTo_string\", Args(&[DType(CString), DType(CString)]), bool),\n",
              GLOBAL_FUNCTIONS)

\* ------------------------------------------------------------------------
\* C2
\* ------------------------------------------------------------------------
Perms(seq) ==
    { [i \in 1..Len(seq) |-> seq[p[i]]] :
        p \in { q \in [1..Len(seq) -> 1..Len(seq)] :
                  \A a, b \in 1..Len(seq) : a # b => q[a] # q[b] } }

NonEmpty(b) == b # ""

BlocksOfText(t) == SelectSeq(Split(t, SEPARATOR), NonEmpty)

\* the inputs obtained by permuting the files and the blocks within each file
Reorderings(files) ==
    UNION { { [i \in 1..Len(fp) |-> FileText(c[i])] :
                c \in { d \in [1..Len(fp) -> UNION { Perms(BlocksOfText(fp[j])) : j \in 1..Len(fp) }] :
                          \A i \in 1..Len(fp) : d[i] \in Perms(BlocksOfText(fp[i])) } } :
            fp \in Perms(files) }

RECURSIVE RunItems(_, _)
RunItems(its, s) ==
    IF Len(its) = 0 \/ s.exc # "" THEN s
    ELSE RunItems(Tail(its), Body(its[1], s))

RECURSIVE RunFiles(_, _)
RunFiles(files, s) ==
    IF Len(files) = 0 \/ s.exc # "" THEN s
    ELSE RunFiles(Tail(files), RunItems(Split(files[1], SEPARATOR), s))

SeedState ==
    [ TYPES |-> <<"    Vec4f,\n">>,
      GLOBAL_PROMOTES |-> <<"    (\"Root\", Args(&[]), Scope),\n">>,
      GLOBAL_FUNCTIONS |-> <<>>, FUNCTIONS |-> <<>>, PROMOTES |-> <<>>,
      type |-> Unbound, barename |-> Unbound, stdout |-> <<>>, exc |-> "" ]

\* the five tables a completed run over the loop state s writes
TablesOf(s) ==
    << DatatypesText(Sorted(s.TYPES)), TableText(Sorted(s.GLOBAL_PROMOTES)),
       TableText(Sorted(s.GLOBAL_FUNCTIONS)), TableText(Sorted(s.PROMOTES)),
       TableText(Sorted(s.FUNCTIONS)) >>

WrittenTables ==
    << fs[OUTDIR[1] \o "/datatypes.rs"], fs[OUTDIR[1] \o "/data_global_promotes.rs"],
       fs[OUTDIR[1] \o "/data_global_functions.rs"], fs[OUTDIR[1] \o "/data_promotes.rs"],
       fs[OUTDIR[1] \o "/data_functions.rs"] >>

\* C2: a finished run has the outcome of every run on the same files taken in
\* another order with their blocks in another order: all abort, or all
\* complete with the same five tables.
C2_OrderIndependent ==
    pc \in {"done", "aborted"} =>
        \A r \in Reorderings(fnames) :
            LET s == RunFiles(r, SeedState)
            IN  IF pc = "aborted" THEN s.exc # "" \/ OUTDIR = Unbound
                ELSE s.exc = "" /\ TablesOf(s) = WrittenTables

\* ------------------------------------------------------------------------
\* C3
\* ------------------------------------------------------------------------
DatatypesWritten == OUTDIR # Unbound /\ (OUTDIR[1] \o "/datatypes.rs") \in DOMAIN fs

\* the member lines of the enumeration in datatypes.rs
EnumMembers ==
    LET ls == SplitLines(fs[OUTDIR[1] \o "/datatypes.rs"])
    IN  SubSeq(ls, 3, Len(ls) - 1)

\* C3: in the written enumeration every member appears once, Unknown and
\* AnyScope are present, and the declared names follow in lexicographic order.
C3_TypeEnumeration ==
    DatatypesWritten =>
        /\ \A i, j \in 1..Len(EnumMembers) : i # j => EnumMembers[i] # EnumMembers[j]
        /\ InList("    Unknown,", EnumMembers)
        /\ InList("    AnyScope,", EnumMembers)
        /\ \A i, j \in 3..Len(EnumMembers) :
              i < j => ~StrLess(EnumMembers[j], EnumMembers[i])

\* ------------------------------------------------------------------------
\* C4
\* ------------------------------------------------------------------------
OwnedKind(item) == HasTagLine(item, "Function") \/ HasTagLine(item, "Promote")

\* C4: a Function or Promote block whose name has no '.' aborts the run, and
\* a Functions/Promotes record starts with the bare name and the owner of the
\* header of the block that emitted it.
C4_OwnerParseFailure ==
    [][(AtItem /\ OwnedKind(CurItem)) =>
         /\ ~Contains(NameOf(CurItem), ".") => pc' = "aborted"
         /\ \A L \in NewOwnedLines :
               /\ Contains(NameOf(CurItem), ".")
               /\ StartsWith(L, "    (\"" \o Split(NameOf(CurItem), ".")[2] \o "\", "
                                 \o Split(NameOf(CurItem), ".")[1] \o ", ")]_vars

\* ------------------------------------------------------------------------
\* C5
\* ------------------------------------------------------------------------
NoRuleMatches(item) ==
    /\ <<NameOf(item), ArityOf(item)>> \notin DOMAIN ARGS_OVERRIDE
    /\ <<BareNameOf(item), ArityOf(item)>> \notin DOMAIN ARGS_OVERRIDE_ANY
    /\ ~StartsWith(NameOf(item), "Select_")
    /\ ~MatchesAny(NameOf(item), BINARY_ARGS)
    /\ ~MatchesAny(NameOf(item), UNARY_ARGS)

\* the argument descriptors of a record
Descriptors(L) ==
    LET inner == Split(Split(L, "Args(&[")[2], "])")[1]
    IN  IF inner = "" THEN <<>> ELSE Split(inner, ", ")

\* C5: every emitted record has as many argument descriptors as its header has
\* consecutive markers Arg0, Arg1, ...; all of them Unknown when no prefix rule
\* and no override matches.
C5_ArgCountIsArity ==
    [][AtItem =>
         \A L \in EmittedLines :
             /\ Len(Descriptors(L)) = ArityOf(CurItem)
             /\ NoRuleMatches(CurItem) =>
                   \A i \in 1..Len(Descriptors(L)) : Descriptors(L)[i] = "DType(Unknown)"]_vars

\* ------------------------------------------------------------------------
\* C6
\* ------------------------------------------------------------------------

\* a Functions record of munch_data_types.py named Self or AccessSelf returns its owner
SelfRuleInTable(L) ==
    LET p == Split(L, ", ")
    IN  p[1] \in {"    (\"Self\"", "    (\"AccessSelf\""} => p[Len(p)] = p[2] \o "),\n"

\* a record of parse_and_format_input named Self or AccessSelf returns its owner
SelfRuleInList(L) ==
    LET p == Split(L, ", ")
    IN  p[1] \in {"(\"Self\"", "(\"AccessSelf\""} => p[Len(p)] = p[2] \o ")"

\* C6: every instance method record named Self or AccessSelf has its owner
\* type as return type, in the Functions table and in the formatted dump.
C6_SelfReturnsOwner ==
    /\ \A i \in 1..Len(FUNCTIONS) : SelfRuleInTable(FUNCTIONS[i])
    /\ \A i \in 1..Len(output_list) : SelfRuleInList(output_list[i])

\* ------------------------------------------------------------------------
\* C7
\* ------------------------------------------------------------------------
LastLineOf(item) == SplitLines(item)[Len(SplitLines(item))]

NoRecognisedTag(item) ==
    LET ls == SplitLines(item)
    IN  \A i \in 1..Len(ls) :
            Contains(ls[i], "Definition type: ") =>
                \A k \in {"Type", "Global macro", "Global promote", "Global function",
                           "Function", "Promote"} :
                    ~Contains(ls[i], "Definition type: " \o k)

NeedsReturnLine(item) ==
    /\ \E k \in {"Global promote", "Global function", "Function", "Promote"} : HasTagLine(item, k)
    /\ ~HasTagLine(item, "Type")
    /\ ~HasTagLine(item, "Global macro")

\* a block the run cannot get past
FatalBlock(item) ==
    /\ item # ""
    /\ \/ NoRecognisedTag(item)
       \/ NeedsReturnLine(item) /\ ~Contains(LastLineOf(item), "Return type: ")

\* no block of any input file is fatal
NoFatalBlock ==
    \A f \in 1..Len(fnames) :
        \A i \in 1..Len(Split(fnames[f], SEPARATOR)) :
            ~FatalBlock(Split(fnames[f], SEPARATOR)[i])

\* C7: a block with no recognisable tag, or a classified block without a
\* return type on its last line, aborts the run; an aborted run has written no
\* table; and a table is written only after every block of every file was
\* processed, none of them fatal.
C7_AllOrNothing ==
    [][/\ (AtItem /\ FatalBlock(CurItem)) => pc' = "aborted"
       /\ pc' = "aborted" => fs' = NoFiles
       /\ fs' # NoFiles => fidx > Len(fnames)
       /\ (fs = NoFiles /\ fs' # NoFiles) => NoFatalBlock]_vars

\* a valid block was filed, then an untagged block ended the run, no table written
C7_Witness ==
    /\ pc = "aborted"
    /\ exc = "TypeError"
    /\ Len(FUNCTIONS) = 1
    /\ fs = NoFiles

\* ------------------------------------------------------------------------
\* C8
\* ------------------------------------------------------------------------

ReportedType(item) ==
    LET v == Strip(Split(LastLineOf(item), "Return type: ")[2])
    IN  IF v = "[unregistered]" THEN "Unknown"
        ELSE IF v = "_null_type_" THEN "void"
        ELSE v

ReturnOf(L) == LET p == Split(L, ", ") IN p[Len(p)]

\* the record is one the Self / AccessSelf rule rewrites
SelfRecord(L) ==
    L \in NewLines(FUNCTIONS, FUNCTIONS')
    /\ (StartsWith(L, "    (\"Self\", ") \/ StartsWith(L, "    (\"AccessSelf\", "))

\* C9: but for the records of the Self rule, a record's return type is the
\* value the log reports (trimmed, [unregistered] as Unknown, _null_type_ as
\* void) unless that is Unknown and RTYPE_OVERRIDE has the name, when it is the
\* override; and a global item reported Unknown with no override is emitted.
C9_ReturnResolution ==
    [][AtItem =>
         /\ \A L \in EmittedLines :
               ~SelfRecord(L) =>
                  /\ ReportedType(CurItem) # "Unknown" =>
                        ReturnOf(L) = ReportedType(CurItem) \o "),\n"
                  /\ (ReportedType(CurItem) = "Unknown"
                        /\ NameOf(CurItem) \notin DOMAIN RTYPE_OVERRIDE) =>
                        ReturnOf(L) = "Unknown),\n"
                  /\ (ReportedType(CurItem) = "Unknown"
                        /\ NameOf(CurItem) \in DOMAIN RTYPE_OVERRIDE) =>
                        ReturnOf(L) = RTYPE_OVERRIDE[NameOf(CurItem)] \o "),\n"
         /\ ( /\ HasTagLine(CurItem, "Global function")
              /\ Contains(LastLineOf(CurItem), "Return type: ")
              /\ ~Contains(NameOf(CurItem), ".") )
            => (pc' # "aborted" /\ EmittedLines # {})]_vars

\* void kept although RTYPE_OVERRIDE has Scope.Title, [unregistered] with a
\* trailing blank overridden for TopScope.sC
C9_Witness ==
    /\ InList("    (\"Title\", Scope, Args(&[]), void),\n", PROMOTES)
    /\ InList("    (\"sC\", TopScope, Args(&[DType(CString)]), Character),\n", PROMOTES)

\* ------------------------------------------------------------------------
\* C10
\* ------------------------------------------------------------------------
Count(b, seq) == Cardinality({ i \in 1..Len(seq) : seq[i] = b })

IsSorted(seq) == \A i, j \in 1..Len(seq) : i < j => ~StrLess(seq[j], seq[i])

InputBlocks == Split(text, SEPARATOR_SORT)

\* the blocks of the printed text, without the newline print() adds
PrintedBlocks == Split(SubSeq(printed[1], 1, Len(printed[1]) - 1), SEPARATOR_SORT)

\* C10: what the sorter prints for event_targets.log and triggers.log has the
\* blocks of the input, each as often as the input, the header block(s) first,
\* the footer of event_targets.log last, and the others sorted.
C10_SortOnlyReorders ==
    (sortpc = "done" /\ printed # Unbound) =>
        /\ \A b \in { InputBlocks[i] : i \in 1..Len(InputBlocks) }
                 \cup { PrintedBlocks[i] : i \in 1..Len(PrintedBlocks) } :
              Count(b, InputBlocks) = Count(b, PrintedBlocks)
        /\ PrintedBlocks[1] = InputBlocks[1]
        /\ EndsWith(fname, "event_targets.log") =>
              /\ PrintedBlocks[Len(PrintedBlocks)] = InputBlocks[Len(InputBlocks)]
              /\ IsSorted(SubSeq(PrintedBlocks, 2, Len(PrintedBlocks) - 1))
        /\ EndsWith(fname, "triggers.log") =>
              /\ PrintedBlocks[2] = InputBlocks[2]
              /\ IsSorted(SubSeq(PrintedBlocks, 3, Len(PrintedBlocks)))

====
